---- MODULE Spec2Model ----
(***************************************************************************)
(* rpt2pnp: the tape feed state (Tape), the two producers of the component *)
(* binding table (ParsePnPConfiguration, ParseSimplePnPConfiguration) and  *)
(* the planner driving a machine backend (main, PickNPlace,                *)
(* SolderDispense).                                                        *)
(*                                                                         *)
(* Lengths are C floats in the program.  Here they are integers counting   *)
(* tenths of a millimetre (2 mm = 20, TYPICAL_BOARD_THICKNESS 1.6 = 16,    *)
(* the comparator's "no tape" height -1 = -10); angles are whole degrees.  *)
(* Float rounding is not modelled.                                         *)
(***************************************************************************)
EXTENDS Integers, Sequences, FiniteSets, TLC

VARIABLES
    \* ---- one Tape driven directly through its public methods
    tp,          \* the Tape object
    base,        \* the Tape as the last constructor/setter call left it
    advanced,    \* Advance calls that returned true since then
    last,        \* the last call on tp and what it returned
    nset,        \* setter calls made so far
    \* ---- the program (main)
    pc,          \* position in main / PickNPlace / SolderDispense
    output_type, \* main's output_type
    cfg_opt,     \* "none", "c" (config_filename) or "C" (simple_config_filename)
    board,       \* board.parts(): the sequence of Part
    config,      \* main's config: the PnPConfig, or null
    built,       \* the producer's locals and result as it returns (<<>> otherwise)
    produced,    \* "no" until a producer is called, then "table" or "NULL"
    tapes,       \* the Tape objects owned by config (heap, indexed 1..)
    tapes0,      \* tapes as they were when the producer returned
    list,        \* PickNPlace's list (the visitation order)
    idx,         \* index of the part PickNPlace is working on
    tape,        \* PickNPlace's tape for that part: a Tape (index) or 0 (NULL)
    all_pads,    \* SolderDispense's all_pads
    calls,       \* the calls made on the Machine so far, in order
    advances,    \* per processed part: what tape->Advance() returned
    reports,     \* stderr messages of PickNPlace
    exit_code,   \* main's return value, -1 while running
    \* ---- ParsePnPConfiguration run line by line
    parser,      \* its locals and result (<<>> when not run)
    input,       \* the lines of the file not yet read
    returned     \* "running", then "NULL" or "table" ("no" when not run)

tapeVars == <<tp, base, advanced, last, nset>>
mainVars == <<pc, output_type, cfg_opt, board, config, built, produced, tapes,
              tapes0,
              list, idx, tape, all_pads, calls, advances, reports, exit_code>>
parseVars == <<parser, input, returned>>
vars == <<tapeVars, mainVars, parseVars>>

-----------------------------------------------------------------------------
(* Bounds and program constants *)

MaxCount == 2            \* largest count a configuration sets
MaxSetterCalls == 3      \* setter calls on the directly driven Tape
MaxParts == 3            \* parts on a board
MaxLines == 3            \* lines of a file read line by line

DefaultCount == 1000             \* Tape::Tape, count_(1000)
TYPICAL_BOARD_THICKNESS == 16    \* 1.6 mm
NoTapeHeight == -10              \* GetHeight: tape == NULL ? -1
DefaultAngle == 90               \* SetAngle(90) of both producers

-----------------------------------------------------------------------------
(* Tape (tape.cc part of src/pnp-config.cc) *)

\* 360 / (2 pi) * atan2f(dy, dx), for the axis-parallel and diagonal
\* spacings the inputs below are drawn from.
Atan2Deg(dy, dx) ==
    CASE dx = 0 /\ dy = 0 -> 0
      [] dy = 0 /\ dx > 0 -> 0
      [] dy = 0 /\ dx < 0 -> 180
      [] dx = 0 /\ dy > 0 -> 90
      [] dx = 0 /\ dy < 0 -> -90
      [] dx = dy /\ dx > 0 -> 45
      [] dx = dy /\ dx < 0 -> -135
      [] dx = -dy /\ dx > 0 -> -45
      [] dx = -dy /\ dx < 0 -> 135

NewTape ==
    [x |-> 0, y |-> 0, z |-> 0, dx |-> 0, dy |-> 0,
     angle |-> 0, slant_angle |-> 0, count |-> DefaultCount]

SetFirstComponentPosition(t, x, y, z) ==
    [t EXCEPT !.x = x, !.y = y, !.z = z]

SetComponentSpacing(t, dx, dy) ==
    [t EXCEPT !.dx = dx, !.dy = dy, !.slant_angle = Atan2Deg(dy, dx)]

SetAngle(t, a) == [t EXCEPT !.angle = a]

SetNumberComponents(t, n) == [t EXCEPT !.count = n]

height(t) == t.z

\* GetPos(&x, &y): ox, oy are what the caller's x and y held before the call.
GetPos(t, ox, oy) ==
    IF t.count <= 0
    THEN [ok |-> FALSE, x |-> ox, y |-> oy]
    ELSE [ok |-> TRUE, x |-> t.x, y |-> t.y]

\* A bug Advance could have: the count is not decremented.
AdvanceNoDecrement(t) ==
    IF t.count <= 0
    THEN [ok |-> FALSE, tape |-> t]
    ELSE [ok |-> TRUE,
          tape |-> [t EXCEPT !.x = t.x + t.dx, !.y = t.y + t.dy]]

\* A bug Advance could have: an off-by-one in the exhaustion test.
AdvanceOffByOne(t) ==
    IF t.count < 0
    THEN [ok |-> FALSE, tape |-> t]
    ELSE [ok |-> TRUE,
          tape |-> [t EXCEPT !.x = t.x + t.dx, !.y = t.y + t.dy,
                             !.count = t.count - 1]]

\* A bug Advance could have: the height follows the feed direction.
AdvanceLiftsZ(t) ==
    IF t.count <= 0
    THEN [ok |-> FALSE, tape |-> t]
    ELSE [ok |-> TRUE,
          tape |-> [t EXCEPT !.x = t.x + t.dx, !.y = t.y + t.dy,
                             !.z = t.z + t.dy, !.count = t.count - 1]]

\* Advance(): the value returned and the Tape afterwards.
Advance(t) ==
    IF t.count <= 0
    THEN [ok |-> FALSE, tape |-> t]
    ELSE [ok |-> TRUE,
          tape |-> [t EXCEPT !.x = t.x + t.dx, !.y = t.y + t.dy,
                             !.count = t.count - 1]]

-----------------------------------------------------------------------------
(* A Tape driven directly: any sequence of setters, GetPos and Advance.    *)

PosVals == {<<0, 0, 20>>, <<10, 30, 50>>}
SpacingVals == {<<40, 0>>, <<0, -20>>, <<10, 10>>}
AngleVals == {0, DefaultAngle}
\* sscanf("%d") of the "count:" line yields any int
CountVals == -1 .. MaxCount

CallRec(op, ok, x, y, k) == [op |-> op, ok |-> ok, x |-> x, y |-> y, k |-> k]

TapeInit ==
    /\ tp = NewTape
    /\ base = NewTape
    /\ advanced = 0
    /\ last = CallRec("Tape", TRUE, 0, 0, 0)
    /\ nset = 0

Configured(t, op) ==
    /\ nset < MaxSetterCalls
    /\ tp' = t
    /\ base' = t
    /\ advanced' = 0
    /\ last' = CallRec(op, TRUE, 0, 0, 0)
    /\ nset' = nset + 1
    /\ UNCHANGED <<mainVars, parseVars>>

TapeSetFirstComponentPosition ==
    \E p \in PosVals :
        Configured(SetFirstComponentPosition(tp, p[1], p[2], p[3]),
                   "SetFirstComponentPosition")

TapeSetComponentSpacing ==
    \E s \in SpacingVals :
        Configured(SetComponentSpacing(tp, s[1], s[2]), "SetComponentSpacing")

TapeSetAngle ==
    \E a \in AngleVals : Configured(SetAngle(tp, a), "SetAngle")

TapeSetNumberComponents ==
    \E n \in CountVals :
        Configured(SetNumberComponents(tp, n), "SetNumberComponents")

TapeGetPos ==
    LET r == GetPos(tp, 0, 0) IN
    /\ last' = CallRec("GetPos", r.ok, r.x, r.y, advanced)
    /\ UNCHANGED <<tp, base, advanced, nset>>
    /\ UNCHANGED <<mainVars, parseVars>>

TapeAdvance ==
    LET r == Advance(tp) IN
    /\ advanced <= MaxCount
    /\ tp' = r.tape
    /\ advanced' = IF r.ok THEN advanced + 1 ELSE advanced
    /\ last' = CallRec("Advance", r.ok, 0, 0, advanced)
    /\ UNCHANGED <<base, nset>>
    /\ UNCHANGED <<mainVars, parseVars>>

MainIdle ==
    /\ pc = "idle"
    /\ output_type = "OUT_NONE"
    /\ cfg_opt = "none"
    /\ board = <<>>
    /\ config = [null |-> TRUE]
    /\ built = <<>>
    /\ produced = "no"
    /\ tapes = <<>>
    /\ tapes0 = <<>>
    /\ list = <<>>
    /\ idx = 0
    /\ tape = 0
    /\ all_pads = <<>>
    /\ calls = <<>>
    /\ advances = <<>>
    /\ reports = <<>>
    /\ exit_code = -1

TapeNext ==
    \/ TapeSetFirstComponentPosition
    \/ TapeSetComponentSpacing
    \/ TapeSetAngle
    \/ TapeSetNumberComponents
    \/ TapeGetPos
    \/ TapeAdvance

ParseIdle ==
    /\ parser = <<>>
    /\ input = <<>>
    /\ returned = "no"

InitTape == TapeInit /\ MainIdle /\ ParseIdle

SpecTape == InitTape /\ [][TapeNext]_vars

-----------------------------------------------------------------------------
(* Board (read-only input)                                                 *)

\* Component names are std::string; here the sequence of their character
\* codes, so that operator< is computed: "C10" < "C2".
Name_C1 == <<67, 49>>
Name_C10 == <<67, 49, 48>>
Name_C2 == <<67, 50>>

\* std::string operator<: lexicographic on the character codes.
RECURSIVE StrLess(_, _)
StrLess(a, b) ==
    IF b = <<>> THEN FALSE
    ELSE IF a = <<>> THEN TRUE
    ELSE IF Head(a) # Head(b) THEN Head(a) < Head(b)
    ELSE StrLess(Tail(a), Tail(b))

Part(name, fp, val, x, y, pads) ==
    [component_name |-> name, footprint |-> fp, value |-> val,
     pos |-> <<x, y>>, pads |-> pads]

NoPart == Part(<<>>, "", "", 0, 0, <<>>)

\* The parts a board is made of.  Two of them carry the same component
\* name (nothing in the program makes names unique).
PartTypes ==
    { Part(Name_C1, "0805", "100n", 100, 100, <<1>>),
      Part(Name_C2, "0805", "100n", 200, 100, <<1, 2>>),
      Part(Name_C10, "0805", "10k", 100, 200, <<>>),
      Part(Name_C1, "0805", "100n", 300, 300, <<1>>) }

Injective(s) == \A i, j \in DOMAIN s : s[i] = s[j] => i = j

Boards ==
    UNION { {s \in [1 .. n -> PartTypes] : Injective(s)} : n \in 0 .. MaxParts }

Key(part) == part.footprint \o "@" \o part.value

Range(s) == {s[i] : i \in DOMAIN s}

Min(a, b) == IF a < b THEN a ELSE b

-----------------------------------------------------------------------------
(* PnPConfig                                                               *)

NullConfig == [null |-> TRUE]

EmptyMap == [k \in {} |-> 0]

\* map[key] = t of std::map
MapPut(m, key, t) ==
    [k \in DOMAIN m \cup {key} |-> IF k = key THEN t ELSE m[k]]

\* A bug the names loop could have: only the first name is bound.
MapPutFirst(m, keys, t) ==
    IF keys = <<>> THEN m ELSE MapPut(m, Head(keys), t)

RECURSIVE MapPutAll(_, _, _)
MapPutAll(m, keys, t) ==
    IF keys = <<>> THEN m
    ELSE MapPutAll(MapPut(m, Head(keys), t), Tail(keys), t)

\* What new PnPConfig() holds: pnp-config.h is not part of the sources, so
\* board.top and bed_level start at any of these values.
InitialTops == {0, TYPICAL_BOARD_THICKNESS}
InitialBedLevels == {-10, 0}

NewPnPConfig(top, bed) ==
    [null |-> FALSE, tape_for_component |-> EmptyMap,
     origin |-> <<0, 0>>, top |-> top, bed_level |-> bed]

-----------------------------------------------------------------------------
(* ParsePnPConfiguration: the full configuration                           *)

\* A line of the file: its first token, the names after "Tape:", and the
\* numbers sscanf can convert at the start of the rest of the line.
Line(tok, names, args) == [tok |-> tok, names |-> names, args |-> args]

\* sscanf's return value for a format of n conversions
Scanned(args, n) == Min(Len(args), n)

\* What is noted of a Tape as the producer makes it: the names it was made
\* for, the "origin:" values read for it and the setters called on it, in
\* order.  (Not program state: kept so that properties can be stated.)
TapeNote(names, setters) ==
    [names |-> names, origins |-> <<>>, setters |-> setters]

\* The parser's locals and its result, before the first line.
ParserStart(top, bed) ==
    [failed |-> FALSE, result |-> NewPnPConfig(top, bed), tapes |-> <<>>,
     current_tape |-> 0, tape_tray_origin |-> <<0, 0>>,
     tape_tray_height |-> 0, notes |-> <<>>]

\* current_tape-><setter>(...): t is the Tape after the call
OnCurrentTape(ps, t, setter) ==
    [ps EXCEPT !.tapes[ps.current_tape] = t,
               !.notes[ps.current_tape].setters = Append(@, setter)]

Failed(ps) == [ps EXCEPT !.failed = TRUE]

\* A bug "Board:" could have: the tape section stays open.
ParseBoardTokenKeepsOpen(ps) == ps

ParseBoardToken(ps) == [ps EXCEPT !.current_tape = 0]

ParseTapeTrayOrigin(ps, ln) ==
    LET n == Scanned(ln.args, 3)
        p == [ps EXCEPT !.current_tape = 0]
    IN  IF 2 > n THEN Failed(p)
        ELSE [p EXCEPT !.tape_tray_origin = <<ln.args[1], ln.args[2]>>,
                       !.tape_tray_height =
                           IF n = 3 THEN ln.args[3] ELSE @]

\* "Tape:" makes a new Tape and binds every name of the line to it; with
\* no name on the line the cleared token "" is bound.
ParseTapeToken(ps, ln) ==
    LET t == Len(ps.tapes) + 1
        keys == IF ln.names = <<>> THEN <<"">> ELSE ln.names
    IN  [ps EXCEPT !.tapes = Append(@, SetAngle(NewTape, DefaultAngle)),
                   !.current_tape = t,
                   !.result.tape_for_component = MapPutAll(@, keys, t),
                   !.notes = Append(@, TapeNote(ln.names, <<"SetAngle">>))]

ParseOrigin(ps, ln) ==
    IF ps.current_tape # 0
    THEN IF 3 # Scanned(ln.args, 3) THEN Failed(ps)
         ELSE [OnCurrentTape(ps, SetFirstComponentPosition(
                   ps.tapes[ps.current_tape],
                   ln.args[1] + ps.tape_tray_origin[1],
                   ln.args[2] + ps.tape_tray_origin[2],
                   ln.args[3] + ps.tape_tray_height),
                   "SetFirstComponentPosition")
               EXCEPT !.notes[ps.current_tape].origins =
                          Append(@, SubSeq(ln.args, 1, 3))]
    ELSE LET n == Scanned(ln.args, 3) IN
         IF 2 > n THEN Failed(ps)
         ELSE [ps EXCEPT !.result.origin = <<ln.args[1], ln.args[2]>>,
                         !.result.top = IF n = 3 THEN ln.args[3] ELSE @]

ParseSpacing(ps, ln) ==
    IF ps.current_tape = 0 THEN Failed(ps)
    ELSE IF 2 # Scanned(ln.args, 2) THEN Failed(ps)
    ELSE IF ln.args[1] = 0 /\ ln.args[2] = 0 THEN Failed(ps)
    ELSE OnCurrentTape(ps, SetComponentSpacing(
             ps.tapes[ps.current_tape], ln.args[1], ln.args[2]),
             "SetComponentSpacing")

ParseAngle(ps, ln) ==
    IF ps.current_tape = 0 THEN Failed(ps)
    ELSE IF 1 # Scanned(ln.args, 1) THEN Failed(ps)
    ELSE OnCurrentTape(ps, SetAngle(ps.tapes[ps.current_tape], ln.args[1]),
                       "SetAngle")

ParseCount(ps, ln) ==
    IF ps.current_tape = 0 THEN Failed(ps)
    ELSE IF 1 # Scanned(ln.args, 1) THEN Failed(ps)
    ELSE OnCurrentTape(ps, SetNumberComponents(
             ps.tapes[ps.current_tape], ln.args[1]), "SetNumberComponents")

\* One iteration of the while loop; "return NULL" is ps.failed.
ParseLine(ps, ln) ==
    IF ln.tok = "" \/ ln.tok = "#" THEN ps
    ELSE IF ln.tok = "Board:" THEN ParseBoardToken(ps)
    ELSE IF ln.tok = "Tape-Tray-Origin:" THEN ParseTapeTrayOrigin(ps, ln)
    ELSE IF ln.tok = "Tape:" THEN ParseTapeToken(ps, ln)
    ELSE IF ln.tok = "origin:" THEN ParseOrigin(ps, ln)
    ELSE IF ln.tok = "spacing:" THEN ParseSpacing(ps, ln)
    ELSE IF ln.tok = "angle:" THEN ParseAngle(ps, ln)
    ELSE IF ln.tok = "count:" THEN ParseCount(ps, ln)
    ELSE Failed(ps)

RECURSIVE ParseLines(_, _)
ParseLines(ps, file) ==
    IF ps.failed \/ file = <<>> THEN ps
    ELSE ParseLines(ParseLine(ps, Head(file)), Tail(file))

\* ParsePnPConfiguration(file): the parser as it is when it returns.  What
\* it returns is NULL if .failed, else .result (with the Tapes in .tapes).
ParsePnPConfiguration(file, top, bed) ==
    LET ps == ParseLines(ParserStart(top, bed), file)
    IN  IF ps.failed THEN ps
        ELSE [ps EXCEPT !.result.bed_level = 0]

-----------------------------------------------------------------------------
(* ParseSimplePnPConfiguration: the configuration derived by homing        *)

\* A line of the file as its sscanf patterns see it: kind is "tape"
\* (tape<idx>:<designator> x y z), "board" (board:<name> x y z), "bedlevel"
\* (bedlevel:<designator> x y z), or "other" for a line none of them
\* converts in full.
SimpleLine(kind, i, designator, name, x, y, z) ==
    [kind |-> kind, tape_idx |-> i, designator |-> designator,
     name |-> name, x |-> x, y |-> y, z |-> z]

\* FindPartPos: the position of the first part of that name, if any.
FindPartPos(parts, part_name) ==
    LET hits == {i \in DOMAIN parts : parts[i].component_name = part_name}
    IN  IF hits = {} THEN [found |-> FALSE, pos |-> <<0, 0>>]
        ELSE [found |-> TRUE,
              pos |-> parts[CHOOSE i \in hits : \A j \in hits : i <= j].pos]

SimpleTapeLine(ps, ln) ==
    IF ln.tape_idx = 1
    THEN LET t == Len(ps.tapes) + 1 IN
         [ps EXCEPT
             !.tapes = Append(@, SetFirstComponentPosition(
                           SetAngle(NewTape, DefaultAngle), ln.x, ln.y, ln.z)),
             !.result.tape_for_component = MapPut(@, ln.designator, t),
             !.notes = Append(@, TapeNote(<<ln.designator>>,
                           <<"SetAngle", "SetFirstComponentPosition">>))]
    ELSE IF ln.designator \in DOMAIN ps.result.tape_for_component
    THEN LET t == ps.result.tape_for_component[ln.designator]
             advance == ln.tape_idx - 1
             old == GetPos(ps.tapes[t], 0, 0)
             \* float division; the files below keep it exact
             dx == (ln.x - old.x) \div advance
             dy == (ln.y - old.y) \div advance
         IN  [ps EXCEPT !.tapes[t] = SetComponentSpacing(@, dx, dy),
                        !.notes[t].setters = Append(@, "SetComponentSpacing")]
    ELSE ps

SimpleBoardLine(ps, parts, ln) ==
    LET f == FindPartPos(parts, ln.name)
        p == IF f.found
             THEN [ps EXCEPT !.result.origin =
                                 <<ln.x - f.pos[1], ln.y - f.pos[2]>>]
             ELSE ps
        q == [p EXCEPT !.result.top = ln.z]
    IN  IF q.result.bed_level < 0
        THEN [q EXCEPT !.result.bed_level =
                           q.result.top - TYPICAL_BOARD_THICKNESS]
        ELSE q

SimpleBedLevelLine(ps, ln) == [ps EXCEPT !.result.bed_level = ln.z]

ParseSimpleLine(ps, parts, ln) ==
    IF ln.kind = "tape" THEN SimpleTapeLine(ps, ln)
    ELSE IF ln.kind = "board" THEN SimpleBoardLine(ps, parts, ln)
    ELSE IF ln.kind = "bedlevel" THEN SimpleBedLevelLine(ps, ln)
    ELSE ps

RECURSIVE ParseSimpleLines(_, _, _)
ParseSimpleLines(ps, parts, file) ==
    IF file = <<>> THEN ps
    ELSE ParseSimpleLines(ParseSimpleLine(ps, parts, Head(file)), parts,
                          Tail(file))

\* The Tapes the table binds
BoundTapes(cfg) == {cfg.tape_for_component[k] : k \in DOMAIN cfg.tape_for_component}

RECURSIVE MinHeight(_, _, _)
MinHeight(lowest, ts, bound) ==
    IF bound = {} THEN lowest
    ELSE LET t == CHOOSE u \in bound : TRUE
         IN  MinHeight(Min(lowest, height(ts[t])), ts, bound \ {t})

\* The cross check's lowest_value
LowestValue(ps) ==
    MinHeight(ps.result.top, ps.tapes, BoundTapes(ps.result))

\* A bug the cross check could have: rejecting a tape that sits exactly on
\* the bed.
CrossCheckInclusive(ps) ==
    IF LowestValue(ps) <= ps.result.bed_level THEN Failed(ps) ELSE ps

CrossCheck(ps) ==
    IF LowestValue(ps) < ps.result.bed_level THEN Failed(ps) ELSE ps

\* ParseSimplePnPConfiguration(board, file): the parser as it is when it
\* returns; NULL is returned if .failed, else .result.
ParseSimplePnPConfiguration(parts, readable, file, top, bed) ==
    LET start == [failed |-> FALSE, result |-> NewPnPConfig(top, bed),
                  tapes |-> <<>>, notes |-> <<>>]
    IN  IF ~readable THEN Failed(start)
        ELSE CrossCheck(ParseSimpleLines(start, parts, file))

-----------------------------------------------------------------------------
(* The configuration files the program is run on                           *)

K1 == "0805@100n"
K2 == "0805@10k"

Section(names, o, sp, cnt) ==
    <<Line("Tape:", names, <<>>), Line("origin:", <<>>, o),
      Line("spacing:", <<>>, sp)>> \o cnt

CountLines ==
    {<<>>} \cup {<<Line("count:", <<>>, <<n>>)>> : n \in CountVals}

TrayLine == Line("Tape-Tray-Origin:", <<>>, <<10, 0, 10>>)
BoardLines == <<Line("Board:", <<>>, <<>>), Line("origin:", <<>>, <<100, 100, 16>>)>>
S1 == Section(<<K1>>, <<0, 0, 20>>, <<40, 0>>, <<>>)

\* Files the full parser accepts
GoodFiles ==
    {Section(nm, <<0, 0, 20>>, <<40, 0>>, c) :
        nm \in {<<K1>>, <<K2>>, <<K1, K2>>}, c \in CountLines}
    \cup
    {Section(<<K1>>, <<0, 0, z1>>, <<40, 0>>, c)
        \o Section(<<K2>>, <<0, 100, 20>>, <<0, -20>>, <<>>) :
        z1 \in {20, 50}, c \in CountLines}
    \cup
    { <<>>,
      <<TrayLine>> \o S1,
      S1 \o <<TrayLine>>,
      <<Line("Tape-Tray-Origin:", <<>>, <<10, 20>>)>> \o S1,
      BoardLines \o S1,
      S1 \o <<Line("Board:", <<>>, <<>>), Line("origin:", <<>>, <<100, 100>>)>>,
      <<Line("#", <<>>, <<>>), Line("Tape:", <<K1>>, <<>>),
        Line("angle:", <<>>, <<0>>), Line("", <<>>, <<>>),
        Line("origin:", <<>>, <<0, 0, 20, 7>>)>>,
      Section(<<K1>>, <<0, 0, -20>>, <<40, 0>>, <<>>),
      Section(<<>>, <<0, 0, 20>>, <<40, 0>>, <<>>),
      S1 \o Section(<<K1>>, <<0, 100, 50>>, <<10, 10>>, <<>>),
      Section(<<K1, K2>>, <<0, 0, 20>>, <<40, 0>>, <<>>)
          \o Section(<<K1>>, <<0, 100, 50>>, <<10, 10>>, <<>>),
      <<Line("Tape:", <<K1>>, <<>>), Line("count:", <<>>, <<0>>),
        Line("count:", <<>>, <<MaxCount>>)>> }

\* Files it rejects
BadFiles ==
    { <<Line("Foo:", <<>>, <<>>)>>,
      S1 \o <<Line("spacing:", <<>>, <<0, 0>>)>>,
      S1 \o <<Line("Board:", <<>>, <<>>), Line("count:", <<>>, <<2>>)>>,
      <<Line("spacing:", <<>>, <<40, 0>>)>>,
      <<TrayLine, Line("angle:", <<>>, <<0>>)>>,
      <<Line("Tape:", <<K1>>, <<>>), Line("origin:", <<>>, <<0, 0>>)>>,
      <<Line("Tape-Tray-Origin:", <<>>, <<10>>)>>,
      <<Line("origin:", <<>>, <<5>>)>>,
      <<Line("Tape:", <<K1>>, <<>>), Line("spacing:", <<>>, <<40>>)>>,
      <<Line("Tape:", <<K1>>, <<>>), Line("angle:", <<>>, <<>>)>>,
      <<Line("Tape:", <<K1>>, <<>>), Line("count:", <<>>, <<>>)>> }

ConfigFiles == GoodFiles \cup BadFiles

-----------------------------------------------------------------------------
(* ParsePnPConfiguration read line by line, on any file of up to MaxLines  *)
(* of these lines                                                          *)

LineAlphabet ==
    { Line("Tape:", <<K1>>, <<>>),
      Line("Board:", <<>>, <<>>),
      TrayLine,
      Line("origin:", <<>>, <<0, 0, 20>>),
      Line("origin:", <<>>, <<100, 100>>),
      Line("spacing:", <<>>, <<40, 0>>),
      Line("spacing:", <<>>, <<0, 0>>),
      Line("angle:", <<>>, <<0>>),
      Line("count:", <<>>, <<2>>),
      Line("Foo:", <<>>, <<>>),
      Line("#", <<>>, <<>>) }

ParseInputs == UNION {[1 .. n -> LineAlphabet] : n \in 0 .. MaxLines}

ParseInit ==
    /\ \E top \in InitialTops, bed \in InitialBedLevels :
           parser = ParserStart(top, bed)
    /\ input \in ParseInputs
    /\ returned = "running"

\* one iteration of the while loop
ParseReadLine ==
    /\ returned = "running"
    /\ input # <<>>
    /\ parser' = ParseLine(parser, Head(input))
    /\ input' = Tail(input)
    /\ returned' = IF parser'.failed THEN "NULL" ELSE "running"
    /\ UNCHANGED <<tapeVars, mainVars>>

\* in.eof(): result->bed_level = 0; return result.release()
ParseReturn ==
    /\ returned = "running"
    /\ input = <<>>
    /\ parser' = [parser EXCEPT !.result.bed_level = 0]
    /\ returned' = "table"
    /\ UNCHANGED input
    /\ UNCHANGED <<tapeVars, mainVars>>

ParseNext == ParseReadLine \/ ParseReturn

InitParse == TapeInit /\ MainIdle /\ ParseInit

SpecParse == InitParse /\ [][ParseNext]_vars

STape(i, k, x, y, z) == SimpleLine("tape", i, k, <<>>, x, y, z)
SBoard(name, x, y, z) == SimpleLine("board", 0, "", name, x, y, z)
SBed(z) == SimpleLine("bedlevel", 0, "BedLevel-Z", <<>>, 0, 0, z)
SOther == SimpleLine("other", 0, "", <<>>, 0, 0, 0)

SimpleBedParts == {<<>>, <<SBed(0)>>, <<SBed(20)>>}
SimpleTapeParts ==
    { <<>>,
      <<STape(1, K1, 0, 0, 20)>>,
      <<STape(1, K1, 0, 0, 20), STape(3, K1, 80, 0, 20), SOther,
        STape(1, K2, 0, 100, 50), STape(2, K2, 0, 80, 50)>>,
      <<STape(1, K1, 0, 0, 20), STape(2, K1, 40, 0, 20),
        STape(3, K1, 80, 0, 20)>>,
      <<STape(2, K1, 40, 0, 20), STape(1, K1, 0, 0, -10)>> }
SimpleBoardParts ==
    { <<>>, <<SBoard(Name_C1, 150, 150, 16)>>, <<SBoard(Name_C2, 150, 150, 40)>> }

SimpleConfigFiles ==
    {b \o t \o r : b \in SimpleBedParts, t \in SimpleTapeParts,
                   r \in SimpleBoardParts}
    \cup
    {r \o t \o b : b \in SimpleBedParts, t \in {<<STape(1, K1, 0, 0, 20)>>},
                   r \in SimpleBoardParts}

-----------------------------------------------------------------------------
(* Machine: the calls made on it.  The backends are not part of the        *)
(* sources; a call is recorded with its arguments as they are at the call. *)

\* tape is the Tape passed (0: NULL), snap its state at the call (<<>> for
\* NULL), ok what Init returned.
MachineCall(op, part, t, snap, pad, ok) ==
    [op |-> op, part |-> part, tape |-> t, snap |-> snap, pad |-> pad,
     ok |-> ok]

\* Init(config, ...) succeeds or fails
MachineInitResults == BOOLEAN

Snap(ts, t) == IF t = 0 THEN <<>> ELSE <<ts[t]>>

-----------------------------------------------------------------------------
(* rpt2pnp main program                                                    *)

\* A bug the lookup could have: matching on the footprint alone.
FindTapeByFootprint(cfg, part) ==
    LET hits == {k \in DOMAIN cfg.tape_for_component :
                    \E v \in {"100n", "10k"} :
                        k = part.footprint \o "@" \o v}
    IN  IF hits = {} THEN 0
        ELSE cfg.tape_for_component[CHOOSE k \in hits : TRUE]

FindTapeForPart(cfg, part) ==
    IF Key(part) \in DOMAIN cfg.tape_for_component
    THEN cfg.tape_for_component[Key(part)]
    ELSE 0

GetHeight(cfg, ts, part) ==
    LET t == FindTapeForPart(cfg, part)
    IN  IF t = 0 THEN NoTapeHeight ELSE height(ts[t])

\* A bug the comparator could have: no tie-break by component name.
ComparatorHeightOnly(cfg, ts, a, b) ==
    IF a = b THEN FALSE
    ELSE GetHeight(cfg, ts, a) < GetHeight(cfg, ts, b)

\* ComponentHeightComparator::operator()(a, b)
ComponentHeightComparator(cfg, ts, a, b) ==
    IF a = b THEN FALSE
    ELSE LET a_height == GetHeight(cfg, ts, a)
             b_height == GetHeight(cfg, ts, b)
         IN  IF a_height = b_height
             THEN StrLess(a.component_name, b.component_name)
             ELSE a_height < b_height

Perms(s) ==
    { [i \in 1 .. Len(s) |-> s[f[i]]] :
        f \in {g \in [1 .. Len(s) -> 1 .. Len(s)] : Injective(g)} }

\* std::sort(list.begin(), list.end(), comparator): some permutation in
\* which no element is ordered before an earlier one.  std::sort is not
\* stable: elements the comparator does not order may end in any order.
StdSort(cfg, ts, s) ==
    { l \in Perms(s) :
        \A i, j \in 1 .. Len(l) :
            i < j => ~ComponentHeightComparator(cfg, ts, l[j], l[i]) }

\* The list PickNPlace walks
PickNPlaceOrder(cfg, ts, parts) ==
    IF ~cfg.null THEN StdSort(cfg, ts, parts) ELSE {parts}

\* A bug the first loop could have: only the first pad of a part is taken.
RECURSIVE AllPadsFirstOnly(_)
AllPadsFirstOnly(parts) ==
    IF parts = <<>> THEN <<>>
    ELSE (IF Head(parts).pads = <<>> THEN <<>>
          ELSE << <<Head(parts), Head(parts).pads[1]>> >>)
         \o AllPadsFirstOnly(Tail(parts))

\* SolderDispense's first loop: every (part, pad) in board order
RECURSIVE AllPads(_)
AllPads(parts) ==
    IF parts = <<>> THEN <<>>
    ELSE [i \in 1 .. Len(Head(parts).pads) |-> <<Head(parts), Head(parts).pads[i]>>]
         \o AllPads(Tail(parts))

\* OptimizeParts(&all_pads) is not part of the sources: by its contract a
\* pure reordering.
OptimizeParts(pads) == Perms(pads)

OutputOnly == {"OUT_CONFIG_TEMPLATE", "OUT_CONFIG_LIST", "OUT_HOMER_INSTRUCTION"}
OutputTypes == {"OUT_NONE", "OUT_DISPENSING", "OUT_PICKNPLACE"} \cup OutputOnly

MainInit ==
    /\ pc = "getopt"
    /\ output_type = "OUT_NONE"
    /\ cfg_opt = "none"
    /\ board = <<>>
    /\ config = NullConfig
    /\ built = <<>>
    /\ produced = "no"
    /\ tapes = <<>>
    /\ tapes0 = <<>>
    /\ list = <<>>
    /\ idx = 0
    /\ tape = 0
    /\ all_pads = <<>>
    /\ calls = <<>>
    /\ advances = <<>>
    /\ reports = <<>>
    /\ exit_code = -1

Return(code) == pc' = "exit" /\ exit_code' = code

\* the getopt loop, with a valid command line
MainGetopt ==
    /\ pc = "getopt"
    /\ \E ot \in OutputTypes, co \in {"none", "c", "C"} :
           output_type' = ot /\ cfg_opt' = co
    /\ pc' = "ParseFromRpt"
    /\ UNCHANGED <<board, config, built, produced, tapes, tapes0, list, idx, tape,
                   all_pads, calls, advances, reports, exit_code>>
    /\ UNCHANGED <<tapeVars, parseVars>>

\* return usage(argv[0])
MainUsage ==
    /\ pc = "getopt"
    /\ Return(1)
    /\ UNCHANGED <<output_type, cfg_opt, board, config, built, produced, tapes, tapes0,
                   list, idx, tape, all_pads, calls, advances, reports>>
    /\ UNCHANGED <<tapeVars, parseVars>>

MainParseFromRpt ==
    /\ pc = "ParseFromRpt"
    /\ \/ \E b \in Boards : board' = b /\ pc' = "output" /\ exit_code' = exit_code
       \/ board' = board /\ Return(1)
    /\ UNCHANGED <<output_type, cfg_opt, config, built, produced, tapes, tapes0, list,
                   idx, tape, all_pads, calls, advances, reports>>
    /\ UNCHANGED <<tapeVars, parseVars>>

\* CreateConfigTemplate, CreateList, CreateHomerInstruction: print, return 0
MainPrintOnly ==
    /\ pc = "output"
    /\ output_type \in OutputOnly
    /\ Return(0)
    /\ UNCHANGED <<output_type, cfg_opt, board, config, built, produced, tapes, tapes0,
                   list, idx, tape, all_pads, calls, advances, reports>>
    /\ UNCHANGED <<tapeVars, parseVars>>

\* config = <what the producer returned>
Produced(ps) ==
    /\ config' = IF ps.failed THEN NullConfig ELSE ps.result
    /\ tapes' = IF ps.failed THEN <<>> ELSE ps.tapes
    /\ tapes0' = tapes'
    /\ built' = <<ps>>
    /\ produced' = IF ps.failed THEN "NULL" ELSE "table"
    /\ pc' = "machine"
    /\ UNCHANGED <<output_type, cfg_opt, board, list, idx, tape, all_pads,
                   calls, advances, reports, exit_code>>
    /\ UNCHANGED <<tapeVars, parseVars>>

MainParsePnPConfiguration ==
    /\ pc = "output"
    /\ output_type \notin OutputOnly
    /\ cfg_opt = "c"
    /\ \E file \in ConfigFiles, top \in InitialTops, bed \in InitialBedLevels :
           Produced(ParsePnPConfiguration(file, top, bed))

MainParseSimplePnPConfiguration ==
    /\ pc = "output"
    /\ output_type \notin OutputOnly
    /\ cfg_opt = "C"
    /\ \E readable \in BOOLEAN, file \in SimpleConfigFiles,
          top \in InitialTops, bed \in InitialBedLevels :
           Produced(ParseSimplePnPConfiguration(board, readable, file, top, bed))

MainNoConfiguration ==
    /\ pc = "output"
    /\ output_type \notin OutputOnly
    /\ cfg_opt = "none"
    /\ pc' = "machine"
    /\ UNCHANGED <<output_type, cfg_opt, board, config, built, produced, tapes, tapes0,
                   list, idx, tape, all_pads, calls, advances, reports,
                   exit_code>>
    /\ UNCHANGED <<tapeVars, parseVars>>

\* new PostScriptMachine() / new GCodeMachine(); the producer's locals are gone
MainNewMachine ==
    /\ pc = "machine"
    /\ built' = <<>>
    /\ pc' = "Init"
    /\ produced' = produced
    /\ UNCHANGED <<output_type, cfg_opt, board, config, tapes, tapes0, list,
                   idx, tape, all_pads, calls, advances, reports, exit_code>>
    /\ UNCHANGED <<tapeVars, parseVars>>

\* A bug main could have: the value Init returns is not tested.
MainMachineInitUntested ==
    /\ pc = "Init"
    /\ \E ok \in MachineInitResults :
        /\ calls' = Append(calls, MachineCall("Init", NoPart, 0, <<>>, 0, ok))
        /\ pc' = "operation"
    /\ UNCHANGED <<output_type, cfg_opt, board, config, built, produced, tapes,
                   tapes0, list, idx, tape, all_pads, advances, reports,
                   exit_code>>
    /\ UNCHANGED <<tapeVars, parseVars>>

\* if (!machine->Init(...)) { ...; return 1; }
MainMachineInit ==
    /\ pc = "Init"
    /\ \E ok \in MachineInitResults :
        /\ calls' = Append(calls, MachineCall("Init", NoPart, 0, <<>>, 0, ok))
        /\ IF ok
           THEN pc' = "operation" /\ exit_code' = exit_code /\ reports' = reports
           ELSE Return(1) /\ reports' = Append(reports, <<"Initialization failed">>)
    /\ UNCHANGED <<output_type, cfg_opt, board, config, built, produced, tapes, tapes0,
                   list, idx, tape, all_pads, advances>>
    /\ UNCHANGED <<tapeVars, parseVars>>

\* A bug main could have: returning without Finish when no operation was
\* chosen.
MainNoOperationReturns ==
    /\ pc = "operation"
    /\ output_type = "OUT_NONE"
    /\ reports' = Append(reports, <<"Please choose operation with -d or -p">>)
    /\ Return(0)
    /\ UNCHANGED <<output_type, cfg_opt, board, config, built, produced, tapes,
                   tapes0, list, idx, tape, all_pads, calls, advances>>
    /\ UNCHANGED <<tapeVars, parseVars>>

MainNoOperation ==
    /\ pc = "operation"
    /\ output_type = "OUT_NONE"
    /\ reports' = Append(reports, <<"Please choose operation with -d or -p">>)
    /\ pc' = "Finish"
    /\ UNCHANGED <<output_type, cfg_opt, board, config, built, produced, tapes, tapes0,
                   list, idx, tape, all_pads, calls, advances, exit_code>>
    /\ UNCHANGED <<tapeVars, parseVars>>

\* SolderDispense up to its second loop
SolderDispenseCollect ==
    /\ pc = "operation"
    /\ output_type = "OUT_DISPENSING"
    /\ all_pads' \in OptimizeParts(AllPads(board))
    /\ idx' = 1
    /\ pc' = IF all_pads' = <<>> THEN "Finish" ELSE "Dispense"
    /\ UNCHANGED <<output_type, cfg_opt, board, config, built, produced, tapes, tapes0,
                   list, tape, calls, advances, reports, exit_code>>
    /\ UNCHANGED <<tapeVars, parseVars>>

\* machine->Dispense(*p.first, *p.second)
SolderDispenseDispense ==
    /\ pc = "Dispense"
    /\ calls' = Append(calls, MachineCall("Dispense", all_pads[idx][1], 0, <<>>,
                                          all_pads[idx][2], TRUE))
    /\ idx' = idx + 1
    /\ pc' = IF idx' > Len(all_pads) THEN "Finish" ELSE "Dispense"
    /\ UNCHANGED <<output_type, cfg_opt, board, config, built, produced, tapes, tapes0,
                   list, tape, all_pads, advances, reports, exit_code>>
    /\ UNCHANGED <<tapeVars, parseVars>>

\* PickNPlace up to its loop: copy the parts, sort them if there is a config
PickNPlaceSort ==
    /\ pc = "operation"
    /\ output_type = "OUT_PICKNPLACE"
    /\ list' \in PickNPlaceOrder(config, tapes, board)
    /\ idx' = 1
    /\ pc' = IF list' = <<>> THEN "Finish" ELSE "FindTape"
    /\ UNCHANGED <<output_type, cfg_opt, board, config, built, produced, tapes, tapes0,
                   tape, all_pads, calls, advances, reports, exit_code>>
    /\ UNCHANGED <<tapeVars, parseVars>>

\* A bug the report could have: only the first part without a tape is
\* reported.
PickNPlaceFindTapeReportOnce ==
    /\ pc = "FindTape"
    /\ tape' = IF ~config.null THEN FindTapeForPart(config, list[idx]) ELSE 0
    /\ reports' = IF ~config.null /\ tape' = 0 /\ reports = <<>>
                  THEN Append(reports, <<"No tape for", list[idx].component_name>>)
                  ELSE reports
    /\ pc' = "PickPart"
    /\ UNCHANGED <<output_type, cfg_opt, board, config, built, produced, tapes, tapes0,
                   list, idx, all_pads, calls, advances, exit_code>>
    /\ UNCHANGED <<tapeVars, parseVars>>

\* the loop body up to PickPart: find the tape, report a part without one
PickNPlaceFindTape ==
    /\ pc = "FindTape"
    /\ tape' = IF ~config.null THEN FindTapeForPart(config, list[idx]) ELSE 0
    /\ reports' = IF ~config.null /\ tape' = 0
                  THEN Append(reports, <<"No tape for", list[idx].component_name>>)
                  ELSE reports
    /\ pc' = "PickPart"
    /\ UNCHANGED <<output_type, cfg_opt, board, config, built, produced, tapes, tapes0,
                   list, idx, all_pads, calls, advances, exit_code>>
    /\ UNCHANGED <<tapeVars, parseVars>>

PickNPlacePickPart ==
    /\ pc = "PickPart"
    /\ calls' = Append(calls, MachineCall("PickPart", list[idx], tape,
                                          Snap(tapes, tape), 0, TRUE))
    /\ pc' = "PlacePart"
    /\ UNCHANGED <<output_type, cfg_opt, board, config, built, produced, tapes, tapes0,
                   list, idx, tape, all_pads, advances, reports, exit_code>>
    /\ UNCHANGED <<tapeVars, parseVars>>

PickNPlacePlacePart ==
    /\ pc = "PlacePart"
    /\ calls' = Append(calls, MachineCall("PlacePart", list[idx], tape,
                                          Snap(tapes, tape), 0, TRUE))
    /\ pc' = "Advance"
    /\ UNCHANGED <<output_type, cfg_opt, board, config, built, produced, tapes, tapes0,
                   list, idx, tape, all_pads, advances, reports, exit_code>>
    /\ UNCHANGED <<tapeVars, parseVars>>

\* if (tape) tape->Advance(); what Advance returns is dropped
PickNPlaceAdvance ==
    /\ pc = "Advance"
    /\ IF tape # 0
       THEN /\ tapes' = [tapes EXCEPT ![tape] = Advance(tapes[tape]).tape]
            /\ advances' = Append(advances, [tape |-> tape, called |-> TRUE,
                                             ok |-> Advance(tapes[tape]).ok])
       ELSE /\ tapes' = tapes
            /\ advances' = Append(advances, [tape |-> 0, called |-> FALSE,
                                             ok |-> FALSE])
    /\ idx' = idx + 1
    /\ pc' = IF idx' > Len(list) THEN "Finish" ELSE "FindTape"
    /\ UNCHANGED <<output_type, cfg_opt, board, config, built, produced, tapes0, list,
                   tape, all_pads, calls, reports, exit_code>>
    /\ UNCHANGED <<tapeVars, parseVars>>

\* machine->Finish(); delete machine; return 0
MainFinish ==
    /\ pc = "Finish"
    /\ calls' = Append(calls, MachineCall("Finish", NoPart, 0, <<>>, 0, TRUE))
    /\ Return(0)
    /\ UNCHANGED <<output_type, cfg_opt, board, config, built, produced, tapes, tapes0,
                   list, idx, tape, all_pads, advances, reports>>
    /\ UNCHANGED <<tapeVars, parseVars>>

Next ==
    \/ MainGetopt
    \/ MainUsage
    \/ MainParseFromRpt
    \/ MainPrintOnly
    \/ MainParsePnPConfiguration
    \/ MainParseSimplePnPConfiguration
    \/ MainNoConfiguration
    \/ MainNewMachine
    \/ MainMachineInit
    \/ MainNoOperation
    \/ SolderDispenseCollect
    \/ SolderDispenseDispense
    \/ PickNPlaceSort
    \/ PickNPlaceFindTape
    \/ PickNPlacePickPart
    \/ PickNPlacePlacePart
    \/ PickNPlaceAdvance
    \/ MainFinish

Init == TapeInit /\ MainInit /\ ParseIdle

Spec == Init /\ [][Next]_vars

-----------------------------------------------------------------------------
(* Claims about a Tape (checked under SpecTape)                            *)

\* C1: for a Tape left by its last setter with count n >= 0, position p
\* and spacing s: after k successful Advance calls k <= n and the count
\* is n - k; an Advance made after k successes succeeds iff k < n (the
\* first n succeed, the (n+1)-th fails); GetPos after k < n successes
\* returns p + k*s.
C1_AdvanceCountsDown ==
    base.count >= 0 =>
        /\ advanced <= base.count
        /\ tp.count = base.count - advanced
        /\ last.op = "Advance" => (last.ok <=> last.k < base.count)
        /\ (last.op = "GetPos" /\ advanced < base.count) =>
               /\ last.ok
               /\ last.x = base.x + advanced * base.dx
               /\ last.y = base.y + advanced * base.dy

\* C1 witness: a Tape of count n >= 2 with a spacing, whose (n+1)-th
\* Advance has just failed after n successes.
C1_Witness ==
    /\ base.count >= 2
    /\ base.dx # 0
    /\ last.op = "Advance"
    /\ ~last.ok
    /\ last.k = base.count
    /\ advanced = base.count

-----------------------------------------------------------------------------
(* Claims about the program (checked under Spec)                           *)

\* C2: in every reachable state every Tape's remaining count is >= 0, and
\* a Tape whose count is 0 fails both GetPos and Advance.  (Stated for the
\* directly driven Tape and for the Tapes of the binding table.)
C2_CountNeverNegative ==
    \A t \in {tp} \cup Range(tapes) :
        /\ t.count >= 0
        /\ t.count = 0 => ~GetPos(t, 0, 0).ok /\ ~Advance(t).ok

PickPlaceCalls ==
    SelectSeq(calls, LAMBDA c : c.op \in {"PickPart", "PlacePart"})

\* The parts visited so far: those PickPart was called for, in order
Visited ==
    LET picks == SelectSeq(calls, LAMBDA c : c.op = "PickPart")
    IN  [i \in 1 .. Len(picks) |-> picks[i].part]

\* The height a part is ordered by: that of its bound tape, -1 (here -10)
\* with no bound tape or no binding table.
OrderHeight(part) ==
    IF config.null \/ Key(part) \notin DOMAIN config.tape_for_component
    THEN NoTapeHeight
    ELSE tapes0[config.tape_for_component[Key(part)]].z

\* a may not come after b: lower height, or same height and smaller name
StrictlyBefore(a, b) ==
    \/ OrderHeight(a) < OrderHeight(b)
    \/ /\ OrderHeight(a) = OrderHeight(b)
       /\ StrLess(a.component_name, b.component_name)

InHeightNameOrder(s) ==
    \A i, j \in DOMAIN s : i < j => ~StrictlyBefore(s[j], s[i])

PickNPlaceDone ==
    pc = "exit" /\ output_type = "OUT_PICKNPLACE" /\ exit_code = 0

\* C4 as claimed: whatever the configuration outcome (a binding table or
\* none), the parts are visited in ascending order of bound-tape height,
\* equal heights in ascending component-name order.
C4_OrderedWithOrWithoutConfig == InHeightNameOrder(Visited)

\* C4 amended: with a binding table loaded the parts are visited in
\* ascending order of bound-tape height (no bound tape: -1), equal heights
\* in ascending component-name order; with no binding table they are
\* visited in board order.
C4_OrderedWhenConfigLoaded ==
    /\ ~config.null => InHeightNameOrder(Visited)
    /\ config.null => Visited = SubSeq(board, 1, Len(Visited))
    /\ PickNPlaceDone => Len(Visited) = Len(board)

\* C4 witness: a finished run with a binding table that visited three
\* parts in another order than the board's: a part of a higher tape last,
\* two parts of one lower height before it in name order.
C4_Witness ==
    /\ PickNPlaceDone
    /\ ~config.null
    /\ Len(Visited) = 3
    /\ Visited # board
    /\ OrderHeight(Visited[1]) = OrderHeight(Visited[2])
    /\ StrLess(Visited[1].component_name, Visited[2].component_name)
    /\ OrderHeight(Visited[2]) < OrderHeight(Visited[3])

\* Position of a part on the board
BoardIndex(part) == CHOOSE i \in DOMAIN board : board[i] = part

\* C5: the ordering is stable: two visited parts of the same resolved
\* height and the same component name are visited in board order.
C5_StableOrder ==
    \A i, j \in DOMAIN Visited :
        (/\ i < j
         /\ OrderHeight(Visited[i]) = OrderHeight(Visited[j])
         /\ Visited[i].component_name = Visited[j].component_name)
        => BoardIndex(Visited[i]) < BoardIndex(Visited[j])

\* The tape bound to a part by exact match on footprint@value (0: none)
BoundTape(part) ==
    IF ~config.null /\ Key(part) \in DOMAIN config.tape_for_component
    THEN config.tape_for_component[Key(part)]
    ELSE 0

\* How many of the first n parts of the list are bound to tape t
DrawnBefore(t, n) == Cardinality({k \in 1 .. n : BoundTape(list[k]) = t})

\* Tape t of the binding table after m Advance calls
TapeAfter(t, m) ==
    LET n == IF tapes0[t].count < 0 THEN 0 ELSE tapes0[t].count
        k == Min(m, n)
    IN  [tapes0[t] EXCEPT !.x = @ + k * tapes0[t].dx,
                          !.y = @ + k * tapes0[t].dy,
                          !.count = @ - k]

\* C6: the Machine is called PickPart(part, tape) then PlacePart(part,
\* tape) for the parts of the list in order, the tape being the one bound
\* by exact match on footprint@value in its state before that part's
\* Advance; Advance is called after PlacePart exactly for the parts with a
\* tape, and a part's three steps are over before the next part's begin.
C6_PickPlaceAdvancePerPart ==
    LET pp == PickPlaceCalls IN
    /\ \A j \in DOMAIN pp :
          LET i == (j + 1) \div 2
              t == BoundTape(list[i])
          IN  /\ pp[j].op = IF j % 2 = 1 THEN "PickPart" ELSE "PlacePart"
              /\ pp[j].part = list[i]
              /\ pp[j].tape = t
              /\ pp[j].snap = IF t = 0 THEN <<>>
                              ELSE <<TapeAfter(t, DrawnBefore(t, i - 1))>>
    /\ 2 * Len(advances) <= Len(pp)
    /\ Len(pp) <= 2 * Len(advances) + 2
    /\ Len(pp) > 2 * Len(advances) => pc \in {"PlacePart", "Advance"}
    /\ \A i \in DOMAIN advances :
          /\ advances[i].tape = BoundTape(list[i])
          /\ advances[i].called <=> BoundTape(list[i]) # 0
    /\ \A t \in DOMAIN tapes : tapes[t] = TapeAfter(t, DrawnBefore(t, Len(advances)))
    /\ PickNPlaceDone => Len(advances) = Len(board) /\ Len(list) = Len(board)

\* C6 witness: a finished run in which a tape was passed to PlacePart in a
\* state an earlier part's Advance had left, and a part went without tape.
C6_Witness ==
    /\ PickNPlaceDone
    /\ \E j \in DOMAIN PickPlaceCalls :
          /\ PickPlaceCalls[j].op = "PlacePart"
          /\ PickPlaceCalls[j].tape # 0
          /\ PickPlaceCalls[j].snap[1].x # tapes0[PickPlaceCalls[j].tape].x
    /\ \E j \in DOMAIN PickPlaceCalls : PickPlaceCalls[j].tape = 0

\* The reports of kind msg, in order
ReportsOf(msg) == SelectSeq(reports, LAMBDA r : r[1] = msg)

\* C7: each part whose bound tape is exhausted (its Advance fails) still
\* gets PickPart and PlacePart, is reported to the operator, and the
\* remaining parts are processed.  (Stated for tapes configured with a
\* count >= 0, so that it does not rest on a negative count.)
C7_ExhaustionReported ==
    /\ \A i \in DOMAIN advances :
          (/\ advances[i].called
           /\ ~advances[i].ok
           /\ tapes0[advances[i].tape].count >= 0) =>
              /\ PickPlaceCalls[2 * i - 1].part = list[i]
              /\ PickPlaceCalls[2 * i].part = list[i]
              /\ \E r \in DOMAIN reports :
                    /\ reports[r][1] # "No tape for"
                    /\ reports[r][Len(reports[r])] = list[i].component_name
    /\ PickNPlaceDone => Len(advances) = Len(board)

\* How many parts of the list have been looked up
LookedUp ==
    IF pc \in {"PickPart", "PlacePart", "Advance"} THEN idx
    ELSE Len(advances)

\* C8: with a binding table loaded, each part whose footprint@value has no
\* tape is reported exactly once ("No tape for <name>", in visiting order),
\* PickPart and PlacePart are called for it with no tape, Advance is not
\* called for it, and the parts after it are processed.
C8_BindingGapReported ==
    LET gaps == SelectSeq(SubSeq(list, 1, LookedUp),
                          LAMBDA q : ~config.null /\ BoundTape(q) = 0)
    IN  /\ ReportsOf("No tape for") =
               [i \in 1 .. Len(gaps) |-> <<"No tape for", gaps[i].component_name>>]
        /\ \A j \in DOMAIN PickPlaceCalls :
              BoundTape(PickPlaceCalls[j].part) = 0 => PickPlaceCalls[j].tape = 0
        /\ \A i \in DOMAIN advances :
              BoundTape(list[i]) = 0 =>
                  /\ ~advances[i].called
                  /\ PickPlaceCalls[2 * i - 1].op = "PickPart"
                  /\ PickPlaceCalls[2 * i - 1].part = list[i]
                  /\ PickPlaceCalls[2 * i].op = "PlacePart"
                  /\ PickPlaceCalls[2 * i].part = list[i]
        /\ PickNPlaceDone => Len(advances) = Len(board)

\* C8 witness: a finished run with a binding table in which two parts
\* without a tape were reported and a part with a tape was placed too.
C8_Witness ==
    /\ PickNPlaceDone
    /\ ~config.null
    /\ Len(ReportsOf("No tape for")) = 2
    /\ \E i \in DOMAIN advances : advances[i].called /\ advances[i].ok

\* The producer has just returned (its result is still at hand in built)
ProducerReturned == pc = "machine" /\ built # <<>>

\* A tape bound by the table the producer built lies below its bed level
SomeTapeBelowBed(ps) ==
    \E t \in BoundTapes(ps.result) : ps.tapes[t].z < ps.result.bed_level

\* The lowest bound tape of the table lies exactly on its bed level
LowestTapeOnBed(ps) ==
    /\ BoundTapes(ps.result) # {}
    /\ \A t \in BoundTapes(ps.result) : ps.tapes[t].z >= ps.result.bed_level
    /\ \E t \in BoundTapes(ps.result) : ps.tapes[t].z = ps.result.bed_level

\* C9 as claimed: either producer returns no table when some bound tape
\* is strictly below bed level.
C9_BothProducersRejectBelowBed ==
    ProducerReturned => (SomeTapeBelowBed(built[1]) => config.null)

\* C9 amended: ParseSimplePnPConfiguration returns no table when some
\* bound tape (or the board top) is strictly below bed level, and returns
\* the table when the lowest bound tape is exactly on bed level and the
\* board top is not below it; ParsePnPConfiguration makes no such check:
\* a table it returns has bed level 0 whatever the tape heights.
C9_SimpleProducerRejectsBelowBed ==
    ProducerReturned =>
        LET ps == built[1] IN
        /\ cfg_opt = "C" =>
              /\ SomeTapeBelowBed(ps) => config.null
              /\ ps.result.top < ps.result.bed_level => config.null
              /\ (LowestTapeOnBed(ps) /\ ps.result.top >= ps.result.bed_level)
                 => (~config.null /\ config = ps.result)
        /\ (cfg_opt = "c" /\ ~config.null) => config.bed_level = 0

\* C9 witness: the simple producer has returned a table whose lowest bound
\* tape is exactly on a bed level other than the default.
C9_Witness ==
    /\ ProducerReturned
    /\ cfg_opt = "C"
    /\ ~config.null
    /\ LowestTapeOnBed(built[1])
    /\ config.bed_level = 20

\* A producer was asked for a table and returned none
ConfigRejected == produced = "NULL"

\* C10: when the requested configuration is rejected the run makes no
\* PickPart, PlacePart or Dispense call and ends with a non-zero exit code.
C10_RejectedConfigIsFatal ==
    ConfigRejected =>
        /\ \A j \in DOMAIN calls :
              calls[j].op \notin {"PickPart", "PlacePart", "Dispense"}
        /\ pc = "exit" => exit_code # 0

-----------------------------------------------------------------------------
(* Machine Init, solder dispensing                                         *)

\* Init has been called and returned failure
InitFailed == \E j \in DOMAIN calls : calls[j].op = "Init" /\ ~calls[j].ok

\* C11: when Init returns failure, Init is the only call ever made on the
\* machine (no PickPart, PlacePart, Dispense or Finish), no Tape is
\* advanced, and the process exits with a non-zero code.
C11_InitFailureIsFatal ==
    InitFailed =>
        /\ Len(calls) = 1
        /\ advances = <<>>
        /\ tapes = tapes0
        /\ pc = "exit"
        /\ exit_code # 0

\* C11 witness: Init failed in a pick-and-place run that had a binding
\* table with a tape and a board with parts to place.
C11_Witness ==
    /\ InitFailed
    /\ output_type = "OUT_PICKNPLACE"
    /\ ~config.null
    /\ tapes # <<>>
    /\ Len(board) >= 2

\* The (part, pad) pairs of the board; parts and pads are distinct objects
BoardPads ==
    UNION {{<<board[i], board[i].pads[j]>> : j \in DOMAIN board[i].pads} :
              i \in DOMAIN board}

\* The (part, pad) pairs Dispense was called for so far, in order
Dispensed ==
    LET d == SelectSeq(calls, LAMBDA c : c.op = "Dispense")
    IN  [i \in 1 .. Len(d) |-> <<d[i].part, d[i].pad>>]

\* How often a (part, pad) pair was dispensed
TimesDispensed(pp) == Cardinality({i \in DOMAIN Dispensed : Dispensed[i] = pp})

DispenseDone ==
    pc = "exit" /\ output_type = "OUT_DISPENSING" /\ exit_code = 0

\* C12: Dispense is called for pairs of the board only and for none twice,
\* and when the dispensing run is over it has been called exactly once for
\* every (part, pad) pair of the board (none for a board without pads).
C12_DispenseIsReordering ==
    /\ \A i \in DOMAIN Dispensed : Dispensed[i] \in BoardPads
    /\ \A pp \in BoardPads : TimesDispensed(pp) <= 1
    /\ DispenseDone =>
          /\ \A pp \in BoardPads : TimesDispensed(pp) = 1
          /\ Len(Dispensed) = Cardinality(BoardPads)

\* C12 witness: a finished dispensing run over a board of four pads, two
\* of them on one part, dispensed in another order than the board's.
C12_Witness ==
    /\ DispenseDone
    /\ Cardinality(BoardPads) = 4
    /\ Dispensed[1][1] # board[1]
    /\ \E i \in DOMAIN Dispensed : Dispensed[i][2] = 2

-----------------------------------------------------------------------------
(* Tape mutation during a run                                              *)

\* How many visited parts resolved to tape t
ResolvedTo(t) == Cardinality({i \in DOMAIN advances : advances[i].tape = t})

\* How many Advance calls on tape t returned success
Succeeded(t) ==
    Cardinality({i \in DOMAIN advances :
                    advances[i].tape = t /\ advances[i].ok})

\* Tape t differs from what the producer left by m advances (and nothing
\* else)
MovedBy(t, m) ==
    tapes[t] = [tapes0[t] EXCEPT !.count = @ - m,
                                 !.x = @ + m * tapes0[t].dx,
                                 !.y = @ + m * tapes0[t].dy]

\* C13 as claimed: at the end of a pick-and-place run every tape's count
\* has dropped by m and its position has moved by m times the spacing, m
\* being the number of visited parts that resolved to the tape.  (Stated
\* for tapes configured with a count >= 0.)
C13_MutatedOncePerPart ==
    PickNPlaceDone =>
        \A t \in DOMAIN tapes :
            tapes0[t].count >= 0 => MovedBy(t, ResolvedTo(t))

\* C13 amended: at the end of a pick-and-place run every tape's count has
\* dropped by k and its position has moved by k times the spacing, where k
\* is the smaller of m, the number of visited parts that resolved to the
\* tape, and n, the count it was configured with (0 if that was negative):
\* the parts visited after the tape ran out leave it as it is.  During the
\* run the same holds of the parts advanced so far, and k is the number of
\* Advance calls on the tape that returned success.
C13_MutatedOncePerPartWhileSupplied ==
    \A t \in DOMAIN tapes :
        LET m == ResolvedTo(t)
            n == IF tapes0[t].count < 0 THEN 0 ELSE tapes0[t].count
        IN  /\ MovedBy(t, Min(m, n))
            /\ Succeeded(t) = Min(m, n)
            /\ PickNPlaceDone =>
                  m = Cardinality({i \in DOMAIN list : BoundTape(list[i]) = t})

\* C13 witness: a finished run in which three parts resolved to one tape
\* configured with a count of 2 and a spacing; a second tape was not drawn
\* from at all.
C13_Witness ==
    /\ PickNPlaceDone
    /\ \E t \in DOMAIN tapes :
          /\ ResolvedTo(t) = 3
          /\ tapes0[t].count = 2
          /\ tapes0[t].dx # 0
          /\ tapes[t].count = 0
    /\ \E t \in DOMAIN tapes : ResolvedTo(t) = 0

-----------------------------------------------------------------------------
(* Frame of Advance (checked under SpecTape)                               *)

\* The step is an Advance call on the directly driven Tape
IsAdvanceStep ==
    /\ last'.op = "Advance"
    /\ UNCHANGED <<base, nset>>
    /\ tp' # tp \/ advanced' # advanced \/ last' # last

\* C14: the height of a Tape is the z its last SetFirstComponentPosition
\* gave it however often Advance was called since; an Advance that returns
\* success adds the spacing to x and y, takes 1 from the count and leaves
\* z, the spacing and both angles as they were; an Advance that returns
\* failure leaves the whole Tape as it was.
C14_AdvanceKeepsHeight ==
    /\ [](height(tp) = base.z)
    /\ [][IsAdvanceStep =>
             IF last'.ok
             THEN tp' = [tp EXCEPT !.x = tp.x + tp.dx, !.y = tp.y + tp.dy,
                                   !.count = tp.count - 1]
             ELSE tp' = tp]_vars

\* C14 witness: a Tape set at a height of 5 mm with a spacing along y has
\* been advanced twice, the second Advance succeeding.
C14_Witness ==
    /\ base.z = 50
    /\ base.dy # 0
    /\ advanced = 2
    /\ last.op = "Advance"
    /\ last.ok
    /\ tp.y = base.y + 2 * base.dy

-----------------------------------------------------------------------------
(* Construction of the Tapes by the producers                              *)

Setters ==
    {"SetFirstComponentPosition", "SetComponentSpacing", "SetAngle",
     "SetNumberComponents"}

\* How often a setter was called on a Tape, by its note
TimesCalled(note, setter) ==
    Cardinality({i \in DOMAIN note.setters : note.setters[i] = setter})

\* C15: when a producer returns a table, no setter has been called more
\* than once on any of its Tapes; and after the producer has returned no
\* Tape has a value a setter sets (z, spacing, angles) changed.
C15_SettersCalledAtMostOnce ==
    /\ (ProducerReturned /\ ~config.null) =>
          \A t \in DOMAIN built[1].notes :
              \A setter \in Setters :
                  TimesCalled(built[1].notes[t], setter) <= 1
    /\ \A t \in DOMAIN tapes :
          /\ tapes[t].z = tapes0[t].z
          /\ tapes[t].dx = tapes0[t].dx
          /\ tapes[t].dy = tapes0[t].dy
          /\ tapes[t].angle = tapes0[t].angle
          /\ tapes[t].slant_angle = tapes0[t].slant_angle

\* The names of the "Tape:" lines read after that of Tape t
NamedLater(ps, t) ==
    UNION {Range(ps.notes[u].names) : u \in {v \in DOMAIN ps.notes : v > t}}

Last(s) == s[Len(s)]

\* C17: in a table the full parser returns, the first position of every
\* tape that has an "origin:" line is the values of that line plus the
\* tray origin (x, y, height) the configuration gives, wherever the
\* "Tape-Tray-Origin:" line stands relative to the tape's section.
C17_TrayOriginComposedOnce ==
    (ProducerReturned /\ cfg_opt = "c" /\ ~config.null) =>
        LET ps == built[1] IN
        \A t \in DOMAIN ps.notes :
            ps.notes[t].origins # <<>> =>
                LET o == Last(ps.notes[t].origins) IN
                /\ tapes[t].x = o[1] + ps.tape_tray_origin[1]
                /\ tapes[t].y = o[2] + ps.tape_tray_origin[2]
                /\ tapes[t].z = o[3] + ps.tape_tray_height

-----------------------------------------------------------------------------
(* The full parser line by line (checked under SpecParse)                  *)

\* The step reads the next line of the file
ReadsLine == returned = "running" /\ input # <<>> /\ input' = Tail(input)

\* The tapes made so far are left as they are
TapesKept == parser'.tapes = parser.tapes

\* The board origin and top are left as they are
BoardKept ==
    /\ parser'.result.origin = parser.result.origin
    /\ parser'.result.top = parser.result.top

\* C18: current_tape is no tape or the one made by the last "Tape:" line
\* read; "Tape:" makes a new Tape and opens its section, "Board:" and
\* "Tape-Tray-Origin:" close the open section and touch no Tape; an
\* "origin:" line that is accepted sets the first position of the open
\* tape and not the board origin if a section is open, and the board
\* origin and no Tape otherwise; "spacing:", "angle:" or "count:" with no
\* section open, a spacing of (0, 0), or an unknown token end the parse
\* with NULL; once NULL is returned no table follows.
C18_OneOpenTapeSection ==
    /\ [](returned \in {"running", "table"} =>
            parser.current_tape \in {0, Len(parser.tapes)})
    /\ [][returned = "NULL" => returned' = "NULL"]_vars
    /\ [][ReadsLine =>
            LET ln == Head(input)
                open == parser.current_tape
            IN  /\ ln.tok = "Tape:" =>
                      /\ Len(parser'.tapes) = Len(parser.tapes) + 1
                      /\ parser'.current_tape = Len(parser'.tapes)
                      /\ returned' = "running"
                /\ ln.tok \in {"Board:", "Tape-Tray-Origin:"} =>
                      /\ parser'.current_tape = 0
                      /\ TapesKept
                /\ (ln.tok = "origin:" /\ returned' = "running") =>
                      IF open # 0
                      THEN /\ BoardKept
                           /\ parser'.current_tape = open
                           /\ parser'.tapes[open].x =
                                  ln.args[1] + parser.tape_tray_origin[1]
                           /\ parser'.tapes[open].y =
                                  ln.args[2] + parser.tape_tray_origin[2]
                           /\ parser'.tapes[open].z =
                                  ln.args[3] + parser.tape_tray_height
                      ELSE /\ TapesKept
                           /\ parser'.current_tape = 0
                           /\ parser'.result.origin = <<ln.args[1], ln.args[2]>>
                /\ (ln.tok \in {"spacing:", "angle:", "count:"} /\ open = 0)
                      => returned' = "NULL"
                /\ (ln.tok = "spacing:" /\ ln.args = <<0, 0>>)
                      => returned' = "NULL"
                /\ ln.tok \notin {"", "#", "Board:", "Tape-Tray-Origin:",
                                   "Tape:", "origin:", "spacing:", "angle:",
                                   "count:"}
                      => returned' = "NULL"]_vars

\* C18 witness: a table was returned for a file whose "Board:" line closed
\* a tape section, so that the "origin:" line after it set the board
\* origin and left the tape at its initial position.
C18_Witness ==
    /\ returned = "table"
    /\ Len(parser.tapes) = 1
    /\ parser.current_tape = 0
    /\ parser.result.origin = <<100, 100>>
    /\ parser.tapes[1].x = 0
    /\ parser.tapes[1].z = 0

-----------------------------------------------------------------------------
(* The calls on the Machine (checked under Spec)                           *)

Actions == {"PickPart", "PlacePart", "Dispense"}

\* main is past machine->Init
ReachedMachine ==
    pc \in {"operation", "Dispense", "FindTape", "PickPart", "PlacePart",
            "Advance", "Finish"}

\* C19: the calls on the Machine start with the one Init; after an Init
\* that failed nothing follows; Finish is called at most once, as the last
\* call, main returning with it; between them come the Dispense calls in
\* the order of all_pads (dispensing) or the PickPart/PlacePart calls in
\* the order of the list (pick and place), never both, and none when no
\* operation was chosen; a run that got past Init and returned has ended
\* with Finish.
C19_InitActionsFinish ==
    /\ ReachedMachine => calls # <<>>
    /\ calls # <<>> =>
          /\ calls[1].op = "Init"
          /\ \A j \in DOMAIN calls : j > 1 => calls[j].op # "Init"
          /\ ~calls[1].ok => Len(calls) = 1
          /\ \A j \in DOMAIN calls :
                calls[j].op = "Finish" => j = Len(calls) /\ pc = "exit"
          /\ \A j \in DOMAIN calls :
                (1 < j /\ calls[j].op # "Finish") => calls[j].op \in Actions
          /\ (calls[1].ok /\ pc = "exit") => Last(calls).op = "Finish"
    /\ \A j \in DOMAIN calls :
          /\ calls[j].op = "Dispense" => output_type = "OUT_DISPENSING"
          /\ calls[j].op \in {"PickPart", "PlacePart"} =>
                output_type = "OUT_PICKNPLACE"
    /\ \A i \in DOMAIN Dispensed : Dispensed[i] = all_pads[i]
    /\ \A j \in DOMAIN PickPlaceCalls :
          /\ PickPlaceCalls[j].part = list[(j + 1) \div 2]
          /\ PickPlaceCalls[j].op = IF j % 2 = 1 THEN "PickPart" ELSE "PlacePart"
    /\ (pc = "exit" /\ output_type = "OUT_NONE" /\ exit_code = 0) =>
          /\ Len(calls) = 2
          /\ calls[1].op = "Init"
          /\ calls[2].op = "Finish"

\* C19 witness: a dispensing run is over with Init, three or more
\* Dispense calls and Finish.
C19_Witness ==
    /\ pc = "exit"
    /\ Len(calls) >= 5
    /\ calls[1].op = "Init"
    /\ calls[2].op = "Dispense"
    /\ Last(calls).op = "Finish"

====
